---------------------------- MODULE Spec2Model ----------------------------
(***************************************************************************)
(* A model of the promotions API: the process start-up in main, the schema *)
(* script run by NewStorage, the parameterised reads of Storage and the    *)
(* HTTP handlers of Application, over a relational store whose rows are    *)
(* provisioned out of band.                                                *)
(*                                                                         *)
(* Conventions.  A Go string is a sequence of one-character strings where  *)
(* the code parses it (query parameters) and a TLA+ string elsewhere.      *)
(* A nullable SQL column holds <<>> (NULL) or <<v>>.  A Go int is a record *)
(* [sat, n]: sat = 0 and n the value, or sat = 1 / -1 for the 64-bit       *)
(* extremes, which the checker's integers cannot hold.  A float64 is a     *)
(* record [kind, n] with kind "fin" (n the value), "inf" or "nan".         *)
(***************************************************************************)
EXTENDS Integers, Sequences, FiniteSets

VARIABLES
    pc,               \* position of main: "stopped", "open", "init", "register", "listen", "serving", "exited"
    storage,          \* main's variable storage: "nil" or "ok" (the *Storage NewStorage returned)
    schemaRuns,       \* schema scripts completed on the store: "none", "once", "again" (twice or more)
    tables,           \* whether the schema's tables exist in the store
    category,         \* table category: sequence of [id, parent_id, name]
    partner,          \* table partner: set of [id, location]
    promotion,        \* table promotion: set of [id, partner_id, category_id]
    headline_banner,  \* table headline_banner: set of [url, partner_id, promotion_id, category_id, image]
    last              \* the last request served: handler, inputs, repository call, response

vars == <<pc, storage, schemaRuns, tables, category, partner, promotion, headline_banner, last>>

-----------------------------------------------------------------------------
(* Bounds of the model *)

\* at most MaxRows rows are provisioned into partner, promotion and headline_banner together
MaxRows == 4

-----------------------------------------------------------------------------
(* Go values *)

GoInt(n) == [sat |-> 0, n |-> n]
MaxInt64 == [sat |-> 1, n |-> 0]
MinInt64 == [sat |-> 0 - 1, n |-> 0]

Fin(n) == [kind |-> "fin", n |-> n]
PosInf == [kind |-> "inf", n |-> 1]
NegInf == [kind |-> "inf", n |-> 0 - 1]
NaN == [kind |-> "nan", n |-> 0]

\* the Go comparison x != 0 on an int and on a float64 (NaN != 0 and Inf != 0 are true)
IntNonZero(v) == v.sat # 0 \/ v.n # 0
FloatNonZero(f) == f.kind # "fin" \/ f.n # 0

-----------------------------------------------------------------------------
(* strconv *)

Digits == {"0", "1", "2", "3", "4", "5", "6", "7", "8", "9"}

DigitVal(c) == CASE c = "0" -> 0 [] c = "1" -> 1 [] c = "2" -> 2 [] c = "3" -> 3
                 [] c = "4" -> 4 [] c = "5" -> 5 [] c = "6" -> 6 [] c = "7" -> 7
                 [] c = "8" -> 8 [] c = "9" -> 9

AllDigits(s) == \A i \in DOMAIN s : s[i] \in Digits

RECURSIVE DecimalValue(_)
DecimalValue(s) == IF s = <<>> THEN 0
                   ELSE 10 * DecimalValue(SubSeq(s, 1, Len(s) - 1)) + DigitVal(s[Len(s)])

RECURSIVE StripZeros(_)
StripZeros(s) == IF s # <<>> /\ s[1] = "0" THEN StripZeros(Tail(s)) ELSE s

HasSign(s) == s # <<>> /\ s[1] \in {"+", "-"}
Unsigned(s) == IF HasSign(s) THEN Tail(s) ELSE s
Negative(s) == s # <<>> /\ s[1] = "-"

\* strconv.Atoi: (0, ErrSyntax) for an empty or malformed numeral; the nearest
\* 64-bit extreme and ErrRange for a numeral out of range; the value otherwise.
\* A decimal numeral of 20 or more significant digits is out of range; one of at
\* most 9 is computed exactly; the lengths between are not among the inputs.
Atoi(s) ==
    LET u == Unsigned(s)
        sig == StripZeros(u)
    IN  CASE u = <<>> \/ ~AllDigits(u) -> [val |-> GoInt(0), err |-> "ErrSyntax"]
          [] u # <<>> /\ AllDigits(u) /\ Len(sig) >= 20 ->
                [val |-> IF Negative(s) THEN MinInt64 ELSE MaxInt64, err |-> "ErrRange"]
          [] u # <<>> /\ AllDigits(u) /\ Len(sig) <= 9 ->
                [val |-> GoInt(IF Negative(s) THEN 0 - DecimalValue(sig) ELSE DecimalValue(sig)),
                 err |-> "nil"]

\* the index of the first exponent marker of s, 0 when it has none
ExpAt(s) == IF \E i \in DOMAIN s : s[i] \in {"e", "E"}
            THEN CHOOSE i \in DOMAIN s : s[i] \in {"e", "E"} /\ \A j \in 1..(i - 1) : s[j] \notin {"e", "E"}
            ELSE 0
DotAt(s) == IF \E i \in DOMAIN s : s[i] = "."
            THEN CHOOSE i \in DOMAIN s : s[i] = "." /\ \A j \in 1..(i - 1) : s[j] # "."
            ELSE 0

Lower(c) == CASE c = "N" -> "n" [] c = "A" -> "a" [] c = "I" -> "i" [] c = "F" -> "f" [] OTHER -> c
LowerSeq(s) == [i \in DOMAIN s |-> Lower(s[i])]

\* strconv.ParseFloat(s, 64): (0, ErrSyntax) for an empty or malformed numeral;
\* (+-Inf, ErrRange) for a decimal numeral too large for a float64; NaN and
\* +-Inf for the words nan, inf and infinity; the value otherwise.  The numerals
\* computed are the decimal ones with a zero fraction and either no exponent or
\* an integer part of at least 1 with an exponent above the float64 range
\* (1e309 and beyond).
ParseFloat(s) ==
    LET u == Unsigned(s)
        e == ExpAt(u)
        mant == IF e = 0 THEN u ELSE SubSeq(u, 1, e - 1)
        expo == IF e = 0 THEN <<>> ELSE SubSeq(u, e + 1, Len(u))
        d == DotAt(mant)
        ip == IF d = 0 THEN mant ELSE SubSeq(mant, 1, d - 1)
        fp == IF d = 0 THEN <<>> ELSE SubSeq(mant, d + 1, Len(mant))
        wellFormed == /\ AllDigits(ip) /\ AllDigits(fp) /\ ip \o fp # <<>>
                      /\ e # 0 => (Unsigned(expo) # <<>> /\ AllDigits(Unsigned(expo)))
        zero == StripZeros(ip \o fp) = <<>>
        mag == DecimalValue(StripZeros(ip))
        signed(n) == IF Negative(s) THEN 0 - n ELSE n
    IN  CASE LowerSeq(u) = <<"n", "a", "n">> /\ ~HasSign(s) -> [val |-> NaN, err |-> "nil"]
          [] LowerSeq(u) = <<"n", "a", "n">> /\ HasSign(s) -> [val |-> Fin(0), err |-> "ErrSyntax"]
          [] LowerSeq(u) = <<"i", "n", "f">> ->
                [val |-> IF Negative(s) THEN NegInf ELSE PosInf, err |-> "nil"]
          [] LowerSeq(u) \notin {<<"n", "a", "n">>, <<"i", "n", "f">>} /\ ~wellFormed ->
                [val |-> Fin(0), err |-> "ErrSyntax"]
          [] wellFormed /\ zero -> [val |-> Fin(0), err |-> "nil"]
          [] wellFormed /\ ~zero /\ e = 0 /\ StripZeros(fp) = <<>> /\ Len(StripZeros(ip)) <= 9 ->
                [val |-> Fin(signed(mag)), err |-> "nil"]
          [] wellFormed /\ ~zero /\ e # 0 /\ ~Negative(expo) /\ StripZeros(ip) # <<>>
                /\ Len(StripZeros(Unsigned(expo))) <= 9
                /\ DecimalValue(StripZeros(Unsigned(expo))) >= 309 ->
                [val |-> IF Negative(s) THEN NegInf ELSE PosInf, err |-> "ErrRange"]

-----------------------------------------------------------------------------
(* The store: initSQL *)

\* insert into category(id, parent_id, name) values ...
SeedCategory == <<
    [id |-> 0, parent_id |-> <<>>, name |-> "Root"],
    [id |-> 1, parent_id |-> <<0>>, name |-> "Eating out"],
    [id |-> 2, parent_id |-> <<0>>, name |-> "Supermarkets"],
    [id |-> 3, parent_id |-> <<0>>, name |-> "Clothes & etc."],
    [id |-> 4, parent_id |-> <<0>>, name |-> "Entertainment"],
    [id |-> 5, parent_id |-> <<0>>, name |-> "Transport"],
    [id |-> 6, parent_id |-> <<0>>, name |-> "Health & Beauty"],
    [id |-> 7, parent_id |-> <<1>>, name |-> "Bars"],
    [id |-> 8, parent_id |-> <<1>>, name |-> "Restaurants"],
    [id |-> 9, parent_id |-> <<1>>, name |-> "Cafe"],
    [id |-> 10, parent_id |-> <<1>>, name |-> "Burgers"],
    [id |-> 11, parent_id |-> <<1>>, name |-> "Gyros"] >>

Ids(table) == {table[i].id : i \in DOMAIN table}

\* one row of an insert ... ON CONFLICT (id) DO UPDATE: an upsert
InsertOnConflictDoUpdate(table, row) ==
    IF row.id \in {table[i].id : i \in DOMAIN table}
    THEN [i \in DOMAIN table |-> IF table[i].id = row.id THEN row ELSE table[i]]
    ELSE Append(table, row)

\* one row of an insert ... ON CONFLICT DO NOTHING: skipped when its primary key is taken
InsertOnConflictDoNothing(table, row) ==
    IF row.id \in Ids(table) THEN table ELSE Append(table, row)

RECURSIVE InsertAll(_, _)
InsertAll(table, rows) ==
    IF rows = <<>> THEN table
    ELSE InsertAll(InsertOnConflictDoNothing(table, Head(rows)), Tail(rows))

\* the rows of category after initSQL has run: create table if not exists keeps
\* an existing table as it is, and the seed rows are inserted
RunInitSQL(cat) == InsertAll(cat, SeedCategory)

-----------------------------------------------------------------------------
(* Rows provisioned out of band *)

PartnerIds == {0, 1}
PromotionIds == {1, 2}
Locations == {<<1, 2>>, <<2, 1>>}
BannerURLs == {"a.jpg", "b.jpg"}
LinkedCategories == {1}

\* category tables a store may hold before the process first starts
PreCategories == {
    <<>>,
    << [id |-> 0, parent_id |-> <<>>, name |-> "Root"],
       [id |-> 12, parent_id |-> <<0>>, name |-> "Travel"],
       [id |-> 7, parent_id |-> <<12>>, name |-> "Hotels"],
       [id |-> 1, parent_id |-> <<>>, name |-> "Food"] >> }

RowCount == Cardinality(partner) + Cardinality(promotion) + Cardinality(headline_banner)

ImageOf(url) == <<"jpeg", url>>

NoRequest == [handler |-> "none", params |-> <<>>, parsed |-> <<>>, fault |-> FALSE,
              op |-> "none", args |-> <<>>,
              readOK |-> FALSE, scanned |-> <<>>, rows |-> <<>>, err |-> <<>>,
              status |-> 0, ctype |-> "",
              body |-> [kind |-> "none", text |-> <<>>, value |-> <<>>]]

Init ==
    /\ pc = "stopped"
    /\ storage = "nil"
    /\ schemaRuns = "none"
    /\ tables \in BOOLEAN
    /\ category \in (IF tables THEN PreCategories ELSE {<<>>})
    /\ partner = {}
    /\ promotion = {}
    /\ headline_banner = {}
    /\ last = NoRequest

ProvisionPartner ==
    /\ tables /\ last = NoRequest /\ RowCount < MaxRows
    /\ \E id \in PartnerIds \ {p.id : p \in partner}, loc \in Locations :
          partner' = partner \cup {[id |-> id, location |-> loc]}
    /\ UNCHANGED <<pc, storage, schemaRuns, tables, category, promotion, headline_banner, last>>

ProvisionPromotion ==
    /\ tables /\ last = NoRequest /\ RowCount < MaxRows
    /\ \E id \in PromotionIds \ {p.id : p \in promotion}, p \in partner,
          c \in LinkedCategories \cap Ids(category) :
          promotion' = promotion \cup {[id |-> id, partner_id |-> p.id, category_id |-> c]}
    /\ UNCHANGED <<pc, storage, schemaRuns, tables, category, partner, headline_banner, last>>

\* a banner is linked to one partner, one promotion or one category, or to nothing
BannerLinks ==
    {[partner_id |-> <<>>, promotion_id |-> <<>>, category_id |-> <<>>]}
    \cup {[partner_id |-> <<p.id>>, promotion_id |-> <<>>, category_id |-> <<>>] : p \in partner}
    \cup {[partner_id |-> <<>>, promotion_id |-> <<p.id>>, category_id |-> <<>>] : p \in promotion}
    \cup {[partner_id |-> <<>>, promotion_id |-> <<>>, category_id |-> <<c>>] :
            c \in LinkedCategories \cap Ids(category)}

ProvisionBanner ==
    /\ tables /\ last = NoRequest /\ RowCount < MaxRows
    /\ \E url \in BannerURLs \ {b.url : b \in headline_banner}, l \in BannerLinks :
          headline_banner' = headline_banner \cup
              {[url |-> url, partner_id |-> l.partner_id, promotion_id |-> l.promotion_id,
                category_id |-> l.category_id, image |-> ImageOf(url)]}
    /\ UNCHANGED <<pc, storage, schemaRuns, tables, category, partner, promotion, last>>

-----------------------------------------------------------------------------
(* SQL reads *)

RECURSIVE SetToSeq(_)
SetToSeq(S) == IF S = {} THEN <<>>
               ELSE LET x == CHOOSE y \in S : TRUE IN <<x>> \o SetToSeq(S \ {x})

Permutations(S) == {f \in [1..Cardinality(S) -> S] : \A x \in S : \E i \in DOMAIN f : f[i] = x}

\* a ?::int parameter: a Go int beyond the int range makes the statement fail
IntParamOK(v) == v.sat = 0

\* the join of categoriesSQL as an inner join
CategoryInnerJoin(c, banners) ==
    SetToSeq({[id |-> c.id, name |-> c.name, url |-> <<b.url>>] :
                 b \in {x \in banners : x.category_id = <<c.id>>}})

\* categoriesSQL: category left join headline_banner on category.id =
\* headline_banner.category_id where category.parent_id = ?
CategoryJoin(c, banners) ==
    LET m == {b \in banners : b.category_id = <<c.id>>}
    IN  IF m = {} THEN <<[id |-> c.id, name |-> c.name, url |-> <<>>]>>
        ELSE SetToSeq({[id |-> c.id, name |-> c.name, url |-> <<b.url>>] : b \in m})

RECURSIVE CategoriesSQL(_, _, _)
CategoriesSQL(cat, banners, parentId) ==
    IF cat = <<>> THEN <<>>
    ELSE (IF Head(cat).parent_id = <<parentId>> THEN CategoryJoin(Head(cat), banners) ELSE <<>>)
         \o CategoriesSQL(Tail(cat), banners, parentId)

\* partnersSQL: partner left join headline_banner on partner.id = headline_banner.partner_id;
\* location[0] as latitude, location[1] as longitude
PartnerJoin(p, banners) ==
    LET m == {b \in banners : b.partner_id = <<p.id>>}
        row(u) == [id |-> p.id, latitude |-> p.location[1], longitude |-> p.location[2], url |-> u]
    IN  IF m = {} THEN {row(<<>>)} ELSE {row(<<b.url>>) : b \in m}

PartnersSQL(partners, banners) ==
    SetToSeq(UNION {PartnerJoin(p, banners) : p \in partners})

\* bannerImagesSQL: select image from headline_banner where url = $1
BannerImagesSQL(banners, url) == SetToSeq({b.image : b \in {x \in banners : x.url = url}})

\* promotion left join headline_banner on promotion.id = headline_banner.promotion_id
PromotionJoin(r, banners) ==
    LET m == {b \in banners : b.promotion_id = <<r.id>>}
    IN  IF m = {} THEN {[id |-> r.id, url |-> <<>>]} ELSE {[id |-> r.id, url |-> <<b.url>>] : b \in m}

\* promotionByPartnerSQL: ... where ?::int = 0 OR promotion.partner_id = ?::int
PartnerFilter(r, p) == p = 0 \/ r.partner_id = p

PromotionByPartnerSQL(promotions, banners, p) ==
    SetToSeq(UNION {PromotionJoin(r, banners) : r \in {x \in promotions : PartnerFilter(x, p)}})

\* ST_MakePoint(?::float, ?::float): the first parameter is x, the second y
MakePoint(a, b) == <<a, b>>

\* partner.location <-> point, as the square of the distance; <<>> when the
\* promotion has no partner row, one value for all rows when the point is not finite
Distance(loc, pt) ==
    IF loc = <<>> THEN <<>>
    ELSE IF pt[1].kind # "fin" \/ pt[2].kind # "fin" THEN <<0>>
    ELSE << (loc[1][1] - pt[1].n) * (loc[1][1] - pt[1].n)
            + (loc[1][2] - pt[2].n) * (loc[1][2] - pt[2].n) >>

\* promotion left join partner on promotion.partner_id = partner.id
LocationOf(r, partners) ==
    LET m == {p \in partners : p.id = r.partner_id}
    IN  IF m = {} THEN {<<>>} ELSE {<<p.location>> : p \in m}

\* order by ... desc: a row never precedes one of a greater key; NULL keys come first
OrderByDesc(k1, k2) == k1 = <<>> \/ (k2 # <<>> /\ k1[1] >= k2[1])

\* promotionByGeoSQL with an inner join on headline_banner in place of the left join
PromotionByGeoSQLInnerJoin(promotions, partners, banners, a, b) ==
    LET keyed == UNION {{[row |-> [id |-> r.id, url |-> <<x.url>>], key |-> Distance(l, MakePoint(a, b))] :
                            x \in {y \in banners : y.promotion_id = <<r.id>>}, l \in LocationOf(r, partners)} :
                        r \in promotions}
        sorted == {f \in Permutations(keyed) :
                      \A i \in 1..(Len(f) - 1) : OrderByDesc(f[i].key, f[i + 1].key)}
    IN  {[i \in DOMAIN f |-> f[i].row] : f \in sorted}

\* promotionByGeoSQL: every ordering of the joined rows that the order by allows
PromotionByGeoSQL(promotions, partners, banners, a, b) ==
    LET keyed == UNION {{[row |-> j, key |-> Distance(l, MakePoint(a, b))] :
                            j \in PromotionJoin(r, banners), l \in LocationOf(r, partners)} :
                        r \in promotions}
        sorted == {f \in Permutations(keyed) :
                      \A i \in 1..(Len(f) - 1) : OrderByDesc(f[i].key, f[i + 1].key)}
    IN  {[i \in DOMAIN f |-> f[i].row] : f \in sorted}

-----------------------------------------------------------------------------
(* Storage *)

\* what gorm's Raw(...).Scan(...) returns: a *gorm.DB, never nil, whose Error
\* field holds the failure of the statement
Tx(failed) == [isNil |-> FALSE, Error |-> failed]

\* a NULL text column scanned into a Go string field is the empty string
ScanText(v) == IF v = <<>> THEN "" ELSE v[1]

ScanCategories(rows) == [i \in DOMAIN rows |-> [Id |-> rows[i].id, Name |-> rows[i].name, URL |-> ScanText(rows[i].url)]]
ScanPartners(rows) == [i \in DOMAIN rows |-> [Id |-> rows[i].id, Latitude |-> rows[i].latitude, Longitude |-> rows[i].longitude, BannerURL |-> ScanText(rows[i].url)]]
ScanPromotions(rows) == [i \in DOMAIN rows |-> [Id |-> rows[i].id, Url |-> ScanText(rows[i].url)]]

\* the result of a Storage method: whether the read of the store succeeded
\* (readOK), what it scanned into the method's local variable (scanned), and what
\* the method returns (rows, err); err is the error's text, <<>> for nil
Result(ok, scanned, rows, err) == [readOK |-> ok, scanned |-> scanned, rows |-> rows, err |-> err]

\* func (s *Storage) GetCategories(parentId int): if err := ...Scan(&categories).Error; err != nil
GetCategories(parentId, dbFailed) ==
    LET tx == Tx(dbFailed \/ ~IntParamOK(parentId))
        scanned == IF tx.Error THEN <<>> ELSE ScanCategories(CategoriesSQL(category, headline_banner, parentId.n))
    IN  IF tx.Error THEN Result(FALSE, scanned, <<>>, <<"GetCategories", "db error">>)
        ELSE Result(TRUE, scanned, scanned, <<>>)

\* func (s *Storage) GetPartners()
GetPartners(dbFailed) ==
    LET tx == Tx(dbFailed)
        scanned == IF tx.Error THEN <<>> ELSE ScanPartners(PartnersSQL(partner, headline_banner))
    IN  IF tx.Error THEN Result(FALSE, scanned, <<>>, <<"GetPartners", "db error">>)
        ELSE Result(TRUE, scanned, scanned, <<>>)

\* GetBannerImageByURL returning no image and no error when no row matches
GetBannerImageByURLNoRowsOK(url, connFailed, dbFailed) ==
    LET found == BannerImagesSQL(headline_banner, url)
    IN  IF connFailed THEN Result(FALSE, <<>>, <<>>, <<"db error">>)
        ELSE IF dbFailed THEN Result(FALSE, <<>>, <<>>, <<"GetBannerURLs", "db error">>)
        ELSE IF found = <<>> THEN Result(TRUE, <<>>, <<>>, <<>>)
        ELSE Result(TRUE, found[1], found[1], <<>>)

\* func (s *Storage) GetBannerImageByURL(url string): s.db.DB() may fail; QueryRow(...).Scan
\* fails with sql.ErrNoRows when no row matches
GetBannerImageByURL(url, connFailed, dbFailed) ==
    LET found == BannerImagesSQL(headline_banner, url)
    IN  IF connFailed THEN Result(FALSE, <<>>, <<>>, <<"db error">>)
        ELSE IF dbFailed THEN Result(FALSE, <<>>, <<>>, <<"GetBannerURLs", "db error">>)
        ELSE IF found = <<>> THEN Result(FALSE, <<>>, <<>>, <<"GetBannerURLs", "sql: no rows in result set">>)
        ELSE Result(TRUE, found[1], found[1], <<>>)

\* func (s *Storage) GetPromotionsByPartner(partner int): if err := ...Scan(&promotions); err != nil
GetPromotionsByPartner(p, dbFailed) ==
    LET tx == Tx(dbFailed \/ ~IntParamOK(p))
        scanned == IF tx.Error THEN <<>> ELSE ScanPromotions(PromotionByPartnerSQL(promotion, headline_banner, p.n))
    IN  IF ~tx.isNil THEN Result(~tx.Error, scanned, <<>>, <<"GetPromotionsByPartner", "%!w(*gorm.DB)">>)
        ELSE Result(~tx.Error, scanned, scanned, <<>>)

\* func (s *Storage) GetPromotionsByGeo(long, lat float64): Raw(promotionByGeoSQL, long, lat),
\* if err := ...Scan(&promotions); err != nil.  One result for each order in which
\* the statement may deliver its rows.
GetPromotionsByGeo(long, lat, dbFailed) ==
    LET tx == Tx(dbFailed)
        delivered == IF tx.Error THEN {<<>>}
                     ELSE PromotionByGeoSQL(promotion, partner, headline_banner, long, lat)
    IN  {IF ~tx.isNil
         THEN Result(~tx.Error, ScanPromotions(o), <<>>, <<"GetPromotionsByGeo", "%!w(*gorm.DB)">>)
         ELSE Result(~tx.Error, ScanPromotions(o), ScanPromotions(o), <<>>) : o \in delivered}

-----------------------------------------------------------------------------
(* main *)

\* the process is started
Start ==
    /\ pc \in {"stopped", "exited"}
    /\ pc' = "open"
    /\ storage' = "nil"
    /\ last' = NoRequest
    /\ UNCHANGED <<schemaRuns, tables, category, partner, promotion, headline_banner>>

\* main going on after a call whatever it returned
AfterCallIgnoringErr(failed, next) == next

\* where main goes after a call that returned err: log.Fatalf ends the process
AfterCall(failed, next) == IF failed THEN "exited" ELSE next

\* db, err := gorm.Open(...)
Open ==
    /\ pc = "open"
    /\ \E failed \in BOOLEAN : pc' = AfterCall(failed, "init")
    /\ UNCHANGED <<storage, schemaRuns, tables, category, partner, promotion, headline_banner, last>>

\* storage, err := NewStorage(db): db.Exec(initSQL) runs the whole script or,
\* on an error, none of it
NewStorage ==
    /\ pc = "init"
    /\ \E failed \in BOOLEAN :
          /\ pc' = AfterCall(failed, "register")
          /\ IF failed
             THEN UNCHANGED <<storage, schemaRuns, tables, category>>
             ELSE /\ tables' = TRUE
                  /\ category' = RunInitSQL(category)
                  /\ schemaRuns' = (IF schemaRuns = "none" THEN "once" ELSE "again")
                  /\ storage' = "ok"
    /\ UNCHANGED <<partner, promotion, headline_banner, last>>

\* http.HandleFunc for the five paths
Register ==
    /\ pc = "register"
    /\ pc' = "listen"
    /\ UNCHANGED <<storage, schemaRuns, tables, category, partner, promotion, headline_banner, last>>

\* http.ListenAndServe: serves until it returns an error
ListenAndServe ==
    /\ pc = "listen"
    /\ \E failed \in BOOLEAN : pc' = AfterCall(failed, "serving")
    /\ UNCHANGED <<storage, schemaRuns, tables, category, partner, promotion, headline_banner, last>>

\* the serving process is ended from outside
Terminate ==
    /\ pc = "serving"
    /\ pc' = "exited"
    /\ last' = NoRequest
    /\ UNCHANGED <<storage, schemaRuns, tables, category, partner, promotion, headline_banner>>

-----------------------------------------------------------------------------
(* Application: the handlers *)

Big == <<"9", "9", "9", "9", "9", "9", "9", "9", "9", "9", "9", "9", "9", "9", "9", "9", "9", "9", "9", "9">>

\* values of a numeric query parameter; <<>> is the absent parameter (Get returns "")
ParentParams == {<<>>, <<"0">>, <<"1">>, <<"a", "b", "c">>, Big}
PartnerParams == {<<>>, <<"1">>, <<"a", "b", "c">>, Big}
FloatParams == {<<>>, <<"0">>, <<"1">>, <<"2">>, <<"1", "e", "9", "9", "9">>}
URLParams == BannerURLs \cup {"missing"}

\* w.WriteHeader(http.StatusInternalServerError); w.Write([]byte(err.Error()))
ErrorResponse(err) ==
    [status |-> 500, ctype |-> "", body |-> [kind |-> "text", text |-> err, value |-> <<>>]]

\* enc.Encode(v) with no WriteHeader before it: status 200
JSONResponse(v) ==
    [status |-> 200, ctype |-> "", body |-> [kind |-> "json", text |-> <<>>, value |-> v]]

\* w.Write(text) with no WriteHeader before it
TextResponse(text) ==
    [status |-> 200, ctype |-> "", body |-> [kind |-> "text", text |-> text, value |-> <<>>]]

\* w.Header().Set("Content-Type", "image/jpeg"); w.Write(image)
ImageResponse(image) ==
    [status |-> 200, ctype |-> "image/jpeg", body |-> [kind |-> "bytes", text |-> <<>>, value |-> image]]

\* if err != nil { 500 and the error's text; return }; otherwise the success response
Respond(res, success) == IF res.err # <<>> THEN ErrorResponse(res.err) ELSE success

\* the record of a request: the handler, its raw parameters, their parsed values,
\* whether the store failed under it, the Storage call and its result, the response
Served(handler, params, parsed, fault, op, args, res, resp) ==
    [handler |-> handler, params |-> params, parsed |-> parsed, fault |-> fault,
     op |-> op, args |-> args,
     readOK |-> res.readOK, scanned |-> res.scanned, rows |-> res.rows, err |-> res.err,
     status |-> resp.status, ctype |-> resp.ctype, body |-> resp.body]

\* func (a *Application) HealthCheck
HealthCheck ==
    /\ pc = "serving" /\ last = NoRequest
    /\ \E pingFailed \in BOOLEAN :
          LET res == Result(~pingFailed, <<>>, <<>>, IF pingFailed THEN <<"db error">> ELSE <<>>)
          IN  last' = Served("healthcheck", <<>>, <<>>, pingFailed, "Ping", <<>>, res, Respond(res, TextResponse(<<"ok">>)))
    /\ UNCHANGED <<pc, storage, schemaRuns, tables, category, partner, promotion, headline_banner>>

\* func (a *Application) GetCategories
HandleGetCategories ==
    /\ pc = "serving" /\ last = NoRequest
    /\ \E parent \in ParentParams, dbFailed \in BOOLEAN :
          LET parentId == Atoi(parent).val
              res == GetCategories(parentId, dbFailed)
          IN  last' = Served("categories", <<parent>>, <<parentId>>, dbFailed, "GetCategories", <<parentId>>, res,
                             Respond(res, JSONResponse(res.rows)))
    /\ UNCHANGED <<pc, storage, schemaRuns, tables, category, partner, promotion, headline_banner>>

\* func (a *Application) GetPartners
HandleGetPartners ==
    /\ pc = "serving" /\ last = NoRequest
    /\ \E dbFailed \in BOOLEAN :
          LET res == GetPartners(dbFailed)
          IN  last' = Served("partners", <<>>, <<>>, dbFailed, "GetPartners", <<>>, res,
                             Respond(res, JSONResponse(res.rows)))
    /\ UNCHANGED <<pc, storage, schemaRuns, tables, category, partner, promotion, headline_banner>>

\* func (a *Application) GetImage
HandleGetImage ==
    /\ pc = "serving" /\ last = NoRequest
    /\ \E url \in URLParams, connFailed \in BOOLEAN, dbFailed \in BOOLEAN :
          LET res == GetBannerImageByURL(url, connFailed, dbFailed)
          IN  last' = Served("image", <<url>>, <<url>>, connFailed \/ dbFailed, "GetBannerImageByURL", <<url>>, res,
                             Respond(res, ImageResponse(res.rows)))
    /\ UNCHANGED <<pc, storage, schemaRuns, tables, category, partner, promotion, headline_banner>>

\* func (a *Application) GetPromotions
HandleGetPromotions ==
    /\ pc = "serving" /\ last = NoRequest
    /\ \E p \in PartnerParams, lat \in FloatParams, long \in FloatParams, dbFailed \in BOOLEAN :
          LET partnerId == Atoi(p).val
              latitude == ParseFloat(lat).val
              longitude == ParseFloat(long).val
          IN  IF FloatNonZero(latitude) /\ FloatNonZero(longitude)
              THEN \E res \in GetPromotionsByGeo(latitude, longitude, dbFailed) :
                      last' = Served("promotions", <<p, lat, long>>, <<partnerId, latitude, longitude>>,
                                     dbFailed, "GetPromotionsByGeo", <<latitude, longitude>>,
                                     res, Respond(res, JSONResponse(res.rows)))
              ELSE LET res == GetPromotionsByPartner(partnerId, dbFailed)
                   IN  last' = Served("promotions", <<p, lat, long>>, <<partnerId, latitude, longitude>>,
                                      dbFailed, "GetPromotionsByPartner", <<partnerId>>,
                                      res, Respond(res, JSONResponse(res.rows)))
    /\ UNCHANGED <<pc, storage, schemaRuns, tables, category, partner, promotion, headline_banner>>

\* the response has been delivered; the server waits for the next request
Finish ==
    /\ pc = "serving" /\ last # NoRequest
    /\ last' = NoRequest
    /\ UNCHANGED <<pc, storage, schemaRuns, tables, category, partner, promotion, headline_banner>>

Next ==
    \/ ProvisionPartner \/ ProvisionPromotion \/ ProvisionBanner
    \/ Start \/ Open \/ NewStorage \/ Register \/ ListenAndServe \/ Terminate
    \/ HealthCheck \/ HandleGetCategories \/ HandleGetPartners \/ HandleGetImage
    \/ HandleGetPromotions \/ Finish

Spec == Init /\ [][Next]_vars

-----------------------------------------------------------------------------
(* The fan-out variant of the /partners handler *)

\* partnersSQL of the variant: select id, ..., location[0] as latitude,
\* location[1] as longitude, price_level from partner
PartnersOnlySQL(partners) ==
    SetToSeq({[id |-> p.id, latitude |-> p.location[1], longitude |-> p.location[2]] : p \in partners})

\* bannerURLsSQL: select url, partner_id from headline_banner
BannerURLsSQL(banners) ==
    SetToSeq({[url |-> b.url, partner_id |-> b.partner_id] : b \in banners})

\* a NULL int column scanned into a Go int field is 0
ScanInt(v) == IF v = <<>> THEN 0 ELSE v[1]

ScanPartnersOnly(rows) == [i \in DOMAIN rows |-> [Id |-> rows[i].id, Latitude |-> rows[i].latitude, Longitude |-> rows[i].longitude, BannerURLs |-> <<>>]]
ScanBanners(rows) == [i \in DOMAIN rows |-> [URL |-> rows[i].url, PartnerID |-> ScanInt(rows[i].partner_id)]]

\* for _, b := range banners { bannersMap[b.PartnerID] = append(bannersMap[b.PartnerID], b.URL) }
RECURSIVE URLsOf(_, _)
URLsOf(banners, id) ==
    IF banners = <<>> THEN <<>>
    ELSE (IF Head(banners).PartnerID = id THEN <<Head(banners).URL>> ELSE <<>>) \o URLsOf(Tail(banners), id)

BannersMap(banners) ==
    [id \in {banners[i].PartnerID : i \in DOMAIN banners} |-> URLsOf(banners, id)]

\* banners[partners[i].Id]: the nil slice for a key the map does not hold
MapGet(m, k) == IF k \in DOMAIN m THEN m[k] ELSE <<>>

\* func (s *Storage) GetPartners() of the variant
GetPartnersOnly(dbFailed) ==
    LET tx == Tx(dbFailed)
        scanned == IF tx.Error THEN <<>> ELSE ScanPartnersOnly(PartnersOnlySQL(partner))
    IN  IF tx.Error THEN Result(FALSE, scanned, <<>>, <<"GetPartners", "db error">>)
        ELSE Result(TRUE, scanned, scanned, <<>>)

\* func (s *Storage) GetBannerURLs(): rows is the map; a nil map is [isNil |-> TRUE]
GetBannerURLs(dbFailed) ==
    LET tx == Tx(dbFailed)
        scanned == IF tx.Error THEN <<>> ELSE ScanBanners(BannerURLsSQL(headline_banner))
    IN  IF tx.Error THEN Result(FALSE, scanned, [isNil |-> TRUE, m |-> <<>>], <<"GetBannerURLs", "db error">>)
        ELSE Result(TRUE, scanned, [isNil |-> FALSE, m |-> BannersMap(scanned)], <<>>)

\* the handler's request in flight: the two tasks of the errgroup, the variables
\* partners and banners they assign, the group's first error, and the response
FanOutRequest ==
    [handler |-> "fanout", partnersTask |-> "running", bannersTask |-> "running",
     partnersFault |-> FALSE, bannersFault |-> FALSE,
     partners |-> <<>>, banners |-> [isNil |-> TRUE, m |-> <<>>], groupErr |-> <<>>,
     responded |-> FALSE, status |-> 0, ctype |-> "",
     body |-> [kind |-> "none", text |-> <<>>, value |-> <<>>]]

\* g.Go(...) twice: both tasks are started
FanOutGo ==
    /\ pc = "serving" /\ last = NoRequest
    /\ last' = FanOutRequest
    /\ UNCHANGED <<pc, storage, schemaRuns, tables, category, partner, promotion, headline_banner>>

\* errgroup keeps the first non-nil error a task returned
GroupErr(current, err) == IF current = <<>> THEN err ELSE current

\* g.Go(func() (err error) { partners, err = a.storage.GetPartners(); return err })
FanOutPartnersTask ==
    /\ last.handler = "fanout" /\ last.partnersTask = "running"
    /\ \E dbFailed \in BOOLEAN :
          LET res == GetPartnersOnly(dbFailed)
          IN  last' = [last EXCEPT !.partnersTask = "done", !.partnersFault = dbFailed,
                                   !.partners = res.rows, !.groupErr = GroupErr(@, res.err)]
    /\ UNCHANGED <<pc, storage, schemaRuns, tables, category, partner, promotion, headline_banner>>

\* g.Go(func() (err error) { banners, err = a.storage.GetBannerURLs(); return err })
FanOutBannersTask ==
    /\ last.handler = "fanout" /\ last.bannersTask = "running"
    /\ \E dbFailed \in BOOLEAN :
          LET res == GetBannerURLs(dbFailed)
          IN  last' = [last EXCEPT !.bannersTask = "done", !.bannersFault = dbFailed,
                                   !.banners = res.rows, !.groupErr = GroupErr(@, res.err)]
    /\ UNCHANGED <<pc, storage, schemaRuns, tables, category, partner, promotion, headline_banner>>

\* if banners != nil { for i := range partners { partners[i].BannerURLs = banners[partners[i].Id] } }
JoinBanners(partners, banners) ==
    IF banners.isNil THEN partners
    ELSE [i \in DOMAIN partners |-> [partners[i] EXCEPT !.BannerURLs = MapGet(banners.m, partners[i].Id)]]

\* whether g.Wait() may return: both tasks have finished
WaitReturns(r) == r.partnersTask = "done" /\ r.bannersTask = "done"

\* if err := g.Wait(); err != nil { 500 and the error's text; return }; the join; enc.Encode(partners)
FanOutWait ==
    /\ last.handler = "fanout" /\ ~last.responded /\ WaitReturns(last)
    /\ LET resp == IF last.groupErr # <<>> THEN ErrorResponse(last.groupErr)
                   ELSE JSONResponse(JoinBanners(last.partners, last.banners))
       IN  last' = [last EXCEPT !.responded = TRUE, !.status = resp.status,
                                !.ctype = resp.ctype, !.body = resp.body]
    /\ UNCHANGED <<pc, storage, schemaRuns, tables, category, partner, promotion, headline_banner>>

\* the response has been delivered
FanOutFinish ==
    /\ last.handler = "fanout" /\ last.responded
    /\ last' = NoRequest
    /\ UNCHANGED <<pc, storage, schemaRuns, tables, category, partner, promotion, headline_banner>>

NextFanOut ==
    \/ ProvisionPartner \/ ProvisionPromotion \/ ProvisionBanner
    \/ Start \/ Open \/ NewStorage \/ Register \/ ListenAndServe \/ Terminate
    \/ FanOutGo \/ FanOutPartnersTask \/ FanOutBannersTask \/ FanOutWait \/ FanOutFinish

SpecFanOut == Init /\ [][NextFanOut]_vars

-----------------------------------------------------------------------------
(* Claims *)

Supplied(s) == s # <<>>
served == last.handler # "none"

\* C1: a GET /promtions request invokes ListPromotionsByGeo exactly when lat and
\* long are both supplied and both parse to a non-zero value; in every other case
\* (a coordinate absent, unparsable or zero) it invokes ListPromotionsByPartner
\* with the supplied partner id, 0 when partner is absent or unparsable; exactly
\* one of the two is invoked.
C1_ParsesNonZero(s) == Supplied(s) /\ ParseFloat(s).err = "nil" /\ FloatNonZero(ParseFloat(s).val)
C1_DispatchRule ==
    last.handler = "promotions" =>
        LET geo == C1_ParsesNonZero(last.params[2]) /\ C1_ParsesNonZero(last.params[3])
            id == IF Supplied(last.params[1]) /\ Atoi(last.params[1]).err = "nil"
                  THEN Atoi(last.params[1]).val ELSE GoInt(0)
        IN  /\ last.op \in {"GetPromotionsByGeo", "GetPromotionsByPartner"}
            /\ (last.op = "GetPromotionsByGeo") <=> geo
            /\ ~geo => last.args = <<id>>

\* C2: when the query itself succeeds, ListPromotionsByPartner(0) returns without
\* error the promotions of all partners, and ListPromotionsByPartner(p) for an
\* existing partner p # 0 returns without error exactly the promotions owned by p.
C2_ByPartner ==
    (last.op = "GetPromotionsByPartner" /\ last.readOK
        /\ (last.args[1].n = 0 \/ \E x \in partner : x.id = last.args[1].n)) =>
        /\ last.err = <<>>
        /\ {last.rows[i].Id : i \in DOMAIN last.rows}
              = {r.id : r \in {x \in promotion : last.args[1].n = 0 \/ x.partner_id = last.args[1].n}}

\* C3: every handler ends a request with status 200 and the complete serialized
\* result when the store read succeeded, or with status 500 and the error's text
\* when it did not; no other status, and no partial result before an error.
C3_TwoOutcomes ==
    served =>
        /\ last.status \in {200, 500}
        /\ last.readOK => last.status = 200
        /\ (last.readOK /\ last.handler # "healthcheck") => last.body.value = last.scanned
        /\ ~last.readOK => (last.status = 500 /\ last.body.kind = "text" /\ last.body.text = last.err)
        /\ last.status = 500 => last.body.value = <<>>

\* the distance the statement orders by, for the promotion of a delivered row
RowDistance(id, args) ==
    LET r == CHOOSE x \in promotion : x.id = id
        p == CHOOSE x \in partner : x.id = r.partner_id
    IN  Distance(<<p.location>>, MakePoint(args[1], args[2]))[1]

\* C4: ListPromotionsByGeo delivers the promotions nearest first: of two
\* consecutive rows of the result the earlier one's partner is at a distance
\* less than or equal to the later one's.
C4_NearestFirst ==
    (last.op = "GetPromotionsByGeo" /\ last.readOK) =>
        \A i \in 1..(Len(last.scanned) - 1) :
            RowDistance(last.scanned[i].Id, last.args) <= RowDistance(last.scanned[i + 1].Id, last.args)

Count(seq, x) == Cardinality({i \in DOMAIN seq : seq[i] = x})
SameRows(s, t) ==
    \A x \in {s[i] : i \in DOMAIN s} \cup {t[i] : i \in DOMAIN t} : Count(s, x) = Count(t, x)

\* C5: ListPromotionsByGeo(lon, lat) yields the same collection of rows as
\* ListPromotionsByPartner(0) up to reordering, in what the statement delivers
\* and in what the method returns: no row is missing from, or more frequent in,
\* either.
C5_SameRowsAsAllPartners ==
    (last.op = "GetPromotionsByGeo" /\ last.readOK) =>
        /\ SameRows(last.scanned, GetPromotionsByPartner(GoInt(0), FALSE).scanned)
        /\ SameRows(last.rows, GetPromotionsByPartner(GoInt(0), FALSE).rows)

C5_Witness ==
    /\ last.op = "GetPromotionsByGeo" /\ last.readOK
    /\ Len(last.scanned) >= 2
    /\ \E i, j \in DOMAIN last.scanned : last.scanned[i].Url = "" /\ last.scanned[j].Url # ""

\* C6: a numeric query parameter (parent, partner, lat, long) that is missing or
\* cannot be parsed, an out-of-range numeral included, is replaced by zero; GET
\* /categories with such a parent answers as GET /categories?parent=0 does.
C6_ZeroWhenUnparsable ==
    /\ last.handler = "categories" =>
          (Atoi(last.params[1]).err # "nil" =>
              /\ last.parsed[1] = GoInt(0)
              /\ LET zero == GetCategories(GoInt(0), last.fault)
                     resp == Respond(zero, JSONResponse(zero.rows))
                 IN  last.status = resp.status /\ last.body = resp.body)
    /\ last.handler = "promotions" =>
          /\ Atoi(last.params[1]).err # "nil" => last.parsed[1] = GoInt(0)
          /\ ParseFloat(last.params[2]).err # "nil" => last.parsed[2] = Fin(0)
          /\ ParseFloat(last.params[3]).err # "nil" => last.parsed[3] = Fin(0)

\* C7: GetBannerImage(url) for a URL with no banner row returns an error, and
\* GET /image for it answers 500 with a non-empty error body and no image/jpeg
\* Content-Type; the image/jpeg Content-Type is set on the success path only.
C7_MissingImage ==
    last.handler = "image" =>
        /\ (~\E b \in headline_banner : b.url = last.params[1]) =>
              /\ last.err # <<>>
              /\ last.status = 500
              /\ last.body.kind = "text" /\ last.body.text # <<>>
              /\ last.ctype # "image/jpeg"
        /\ (last.ctype = "image/jpeg") <=> (last.err = <<>> /\ last.status = 200)
        /\ last.err = <<>> => \E b \in headline_banner : b.url = last.params[1] /\ last.body.value = b.image

C7_Witness ==
    /\ last.handler = "image" /\ last.params = <<"missing">> /\ ~last.fault
    /\ headline_banner # {}
    /\ last.status = 500

SeedIds == {SeedCategory[i].id : i \in DOMAIN SeedCategory}

\* C8: no request is served before the schema script has completed in this
\* process: the handlers are registered and the listener started only after
\* NewStorage returned without error, and a failure to open the store or to run
\* the script ends the process.
C8_NoServingBeforeInit ==
    /\ (pc \in {"register", "listen", "serving"} \/ served) =>
          (storage = "ok" /\ tables /\ schemaRuns # "none" /\ SeedIds \subseteq Ids(category))
    /\ served => pc = "serving"
    /\ storage = "nil" => pc \in {"stopped", "open", "init", "exited"}

C8_Witness == served /\ last.status = 200 /\ storage = "ok"

\* C9: the schema script is idempotent.  After it has completed, the tables
\* exist and every seeded id 0..11 is in category exactly once; a further run
\* changes neither the tables nor any category row; and no run changes a row the
\* category table already held (skip on conflict, no upsert).
C9_SeededOnce ==
    schemaRuns # "none" =>
        /\ tables
        /\ \A id \in SeedIds : Cardinality({i \in DOMAIN category : category[i].id = id}) = 1
C9_RunKeepsRows ==
    /\ schemaRuns # "none" => (category' = category /\ tables' = tables)
    /\ Len(category') >= Len(category)
    /\ \A i \in DOMAIN category : category'[i] = category[i]
    /\ \A i \in DOMAIN category' : i > Len(category) => category'[i] \in {SeedCategory[k] : k \in DOMAIN SeedCategory}
C9_Idempotent == [](C9_SeededOnce) /\ [][C9_RunKeepsRows]_vars

C9_Witness ==
    /\ schemaRuns = "again" /\ pc = "register"
    /\ \E i \in DOMAIN category : category[i].id = 1 /\ category[i].name = "Food"

\* C10: ListCategories(parentId) returns every category whose parent is parentId
\* and no other; a category with a banner carries that banner's URL and one
\* without appears with an empty URL; on a freshly initialized store
\* ListCategories(0) returns exactly the seeded categories 1 to 6.
C10_ListCategories ==
    (last.op = "GetCategories" /\ last.readOK) =>
        LET pid == last.args[1].n
            children == {category[i].id : i \in {k \in DOMAIN category : category[k].parent_id = <<pid>>}}
            urls(c) == {b.url : b \in {x \in headline_banner : x.category_id = <<c>>}}
        IN  /\ last.err = <<>>
            /\ {last.rows[i].Id : i \in DOMAIN last.rows} = children
            /\ \A c \in children :
                  IF urls(c) = {}
                  THEN Count([i \in DOMAIN last.rows |-> last.rows[i].Id], c) = 1
                       /\ \A i \in DOMAIN last.rows : last.rows[i].Id = c => last.rows[i].URL = ""
                  ELSE {last.rows[i].URL : i \in {k \in DOMAIN last.rows : last.rows[k].Id = c}} = urls(c)
            /\ (category = SeedCategory /\ pid = 0) => children = 1..6
            /\ last.body.value = last.rows

C10_Witness ==
    /\ last.op = "GetCategories" /\ last.readOK /\ last.args[1].n = 0
    /\ category = SeedCategory
    /\ \E i, j \in DOMAIN last.rows : last.rows[i].URL = "" /\ last.rows[j].URL # ""

\* C11: ListPartners returns every partner with the URL of at most one banner: a
\* partner without a banner appears with an empty URL, and no partner appears in
\* the result with more than one banner URL, also when two or more banner rows
\* reference it.
C11_AtMostOneBanner ==
    (last.op = "GetPartners" /\ last.readOK) =>
        LET urlsOf(id) == {last.rows[i].BannerURL : i \in {k \in DOMAIN last.rows : last.rows[k].Id = id}}
        IN  /\ last.err = <<>>
            /\ {last.rows[i].Id : i \in DOMAIN last.rows} = {p.id : p \in partner}
            /\ \A p \in partner :
                  /\ Cardinality(urlsOf(p.id)) <= 1
                  /\ (~\E b \in headline_banner : b.partner_id = <<p.id>>) => urlsOf(p.id) = {""}

\* func (s *Storage) GetPromotionsByGeo(long, lat float64): the parameters to
\* which the arguments of a call are bound, in the order of the signature
GeoParams(args) == [long |-> args[1], lat |-> args[2]]

\* C13: in geo-mode the value parsed from the long query parameter reaches the
\* longitude parameter of ListPromotionsByGeo(longitude, latitude) and the value
\* parsed from lat reaches its latitude parameter: the two coordinates are not
\* exchanged between the handler and the repository.
C13_CoordinatesNotExchanged ==
    last.op = "GetPromotionsByGeo" =>
        /\ GeoParams(last.args).long = ParseFloat(last.params[3]).val
        /\ GeoParams(last.args).lat = ParseFloat(last.params[2]).val

\* C12: in the fan-out variant of /partners the response is written only after
\* both reads have finished; under every interleaving, if either read fails the
\* response is a 500 with the error's text and no partner data, and if both
\* succeed every partner of the store is in the response with exactly the URLs
\* of the banner rows that reference its id.
C12_AfterBoth ==
    (last.handler = "fanout" /\ last.responded) => WaitReturns(last)
C12_FailsWhole ==
    (last.handler = "fanout" /\ last.responded /\ (last.partnersFault \/ last.bannersFault)) =>
        /\ last.status = 500
        /\ last.body.kind = "text" /\ last.body.text # <<>>
        /\ last.body.value = <<>>
C12_JoinedByPartnerId ==
    (last.handler = "fanout" /\ last.responded /\ ~last.partnersFault /\ ~last.bannersFault) =>
        LET rows == last.body.value
        IN  /\ last.status = 200 /\ last.body.kind = "json"
            /\ {rows[i].Id : i \in DOMAIN rows} = {p.id : p \in partner}
            /\ Len(rows) = Cardinality(partner)
            /\ \A i \in DOMAIN rows :
                  /\ {rows[i].BannerURLs[k] : k \in DOMAIN rows[i].BannerURLs}
                        = {b.url : b \in {x \in headline_banner : x.partner_id = <<rows[i].Id>>}}
                  /\ Len(rows[i].BannerURLs)
                        = Cardinality({x \in headline_banner : x.partner_id = <<rows[i].Id>>})
C12_FanOut == C12_AfterBoth /\ C12_FailsWhole /\ C12_JoinedByPartnerId

=============================================================================
